---- MODULE Spec2Model ----
(***************************************************************************)
(* The refresh scheduler server of Starlink-IP-EDL (docs/API.md, lines     *)
(* 84-694) together with the update-ip handler it mounts on                *)
(* POST /api/update-ip-file.  Time is the wall clock in milliseconds.      *)
(***************************************************************************)
EXTENDS Integers, Sequences, FiniteSets, Bags, TLC

\* ------------------------------------------------------------------ bounds
StartTime == 60000
MaxMinutes == 2
MaxOffset == 3000
MaxCycles == 2
MaxChangelogLen == 11
MaxReceived == 3
MaxSseReceived == 2
MaxListLen == 2
MaxChanges == 2
MaxCalls == 2
MaxSources == 3
MaxReconnects == 1
MaxDelivered == 2

\* ------------------------------------------------------- program constants
DEFAULT_UPDATE_INTERVAL == 15
MIN_UPDATE_INTERVAL == 5000
MinTimerDelay == 1000
MinuteMs == 60 * 1000
ChangelogCap == 10
HandlerDefaultInterval == 60

\* ----------------------------------------------------------------- helpers
Max(a, b) == IF a >= b THEN a ELSE b

Min(a, b) == IF a <= b THEN a ELSE b

RECURSIVE Flatten(_)
Flatten(ss) == IF ss = <<>> THEN <<>> ELSE Head(ss) \o Flatten(Tail(ss))

Range(s) == {s[i] : i \in 1..Len(s)}

\* Array.prototype.slice(0, n)
Slice(s, n) == SubSeq(s, 1, Min(n, Len(s)))

NoTimer == -1

MaxTime == StartTime + MaxMinutes * MinuteMs

\* ------------------------------------------------------------- feed texts
\* A feed text is the sequence of its lines (split on "\n"), a line the
\* sequence of its cells (split on ",").  The empty text is <<>>.
A1 == "14.1.64.0/24"
A2 == "14.1.65.0/24"
A3 == "14.1.66.0/24"

Cidrs == {A1, A2, A3}

EmptyText == <<>>
NoMatchText == << <<"network", "geoname">> >>
TextA == << <<"network", "geoname">>, <<A1, "123">>, <<A2, "123">> >>
TextB == << <<"network", "geoname">>, <<A1, "123">>, <<A3, "123">> >>

\* cell.match(/(\d{1,3}\.\d{1,3}\.\d{1,3}\.\d{1,3}\/\d{1,2})/): the matched
\* substring, or nothing
CellMatch(cell) == IF cell \in Cidrs THEN <<cell>> ELSE <<>>

RECURSIVE MatchCells(_)
MatchCells(cells) ==
  IF cells = <<>> THEN <<>>
  ELSE CellMatch(Head(cells)) \o MatchCells(Tail(cells))

\* lines.forEach(line => line.split(',').forEach(cell => ... push))
ExtractIpv4List(csvText) == MatchCells(Flatten(csvText))

\* !csvText
Falsy(csvText) == csvText = <<>>

\* --------------------------------------------------------------- responses
\* What one fetch attempt can produce: a transport error, a non-2xx status,
\* or a 2xx response whose body is raw text or a JSON object {contents}.
RThrow == [kind |-> "throw", text |-> EmptyText]
RNotOk == [kind |-> "notok", text |-> EmptyText]
ROk(t) == [kind |-> "raw", text |-> t]
RJson(t) == [kind |-> "json", text |-> t]

RawResponses == {RThrow, RNotOk, ROk(EmptyText), ROk(NoMatchText), ROk(TextA), ROk(TextB)}

corsProxies == <<"corsproxy.io", "proxy.cors.sh", "api.allorigins.win", "cors-proxy.htmldriven.com">>

JsonProxy == "cors-proxy.htmldriven.com"

\* candidate 0 is the direct request, candidate i the i-th relay
Responses(cand) ==
  IF cand > 0 /\ corsProxies[cand] = JsonProxy
  THEN {RThrow, RNotOk, ROk(TextA), RJson(EmptyText), RJson(TextB)}
  ELSE RawResponses

\* ------------------------------------------------------------------- state
VARIABLES
  clock,                  \* Date.now()
  running,                \* the server process is up
  fileExists,             \* data/ipData.json exists
  file,                   \* content of data/ipData.json
  ipv4txt,                \* lines of public/ipv4.txt
  lastUpdateTxt,          \* content of public/last-update.txt (0: absent)
  currentUpdateInterval,
  updateTimer,            \* the handle kept by the server (fire time) or NoTimer
  timers,                 \* bag of the fire times of the pending setTimeout timers
  nextUpdateTime,
  lastUpdateTime,
  sseClients,
  chan,                   \* per client: "none", "open", "broken" (next write throws)
  received,               \* per client: events received on its connection
  inflight,               \* updateIPAddresses calls suspended at a fetch
  log,                    \* the last outcome the server wrote to its console
  hook                    \* one instance of the client hook useStarlinkData

vars == <<clock, running, fileExists, file, ipv4txt, lastUpdateTxt,
          currentUpdateInterval, updateTimer, timers, nextUpdateTime,
          lastUpdateTime, sseClients, chan, received, inflight, log, hook>>

Clients == {"c1", "c2"}

\* the state the server code reads and writes, as one record
St == [fileExists |-> fileExists, file |-> file, ipv4txt |-> ipv4txt,
       lastUpdateTxt |-> lastUpdateTxt,
       currentUpdateInterval |-> currentUpdateInterval,
       updateTimer |-> updateTimer, timers |-> timers,
       nextUpdateTime |-> nextUpdateTime, lastUpdateTime |-> lastUpdateTime,
       sseClients |-> sseClients, received |-> received, inflight |-> inflight,
       log |-> log]

Commit(s) ==
  /\ fileExists' = s.fileExists
  /\ file' = s.file
  /\ ipv4txt' = s.ipv4txt
  /\ lastUpdateTxt' = s.lastUpdateTxt
  /\ currentUpdateInterval' = s.currentUpdateInterval
  /\ updateTimer' = s.updateTimer
  /\ timers' = s.timers
  /\ nextUpdateTime' = s.nextUpdateTime
  /\ lastUpdateTime' = s.lastUpdateTime
  /\ sseClients' = s.sseClients
  /\ received' = s.received
  /\ inflight' = s.inflight
  /\ log' = s.log
  /\ hook' = hook

\* the document written when ipData.json does not exist
DefaultDoc(now) ==
  [lastUpdated |-> now, ipAddresses |-> <<>>,
   updateInterval |-> DEFAULT_UPDATE_INTERVAL, autoUpdateEnabled |-> TRUE,
   changelog |-> <<>>, nextUpdateTime |-> now + DEFAULT_UPDATE_INTERVAL * MinuteMs]

\* --------------------------------------------------------- server functions
\* notifyClients whose loop ends at the first write that throws
notifyClientsStopsAtFailure(s, message) ==
  IF \E c \in s.sseClients : chan[c] # "open"
  THEN [s EXCEPT !.sseClients = {c \in @ : chan[c] = "open"}]
  ELSE [s EXCEPT !.received = [c \in Clients |->
                     IF c \in s.sseClients THEN Append(@[c], message) ELSE @[c]]]

notifyClients(s, message) ==
  [s EXCEPT
     !.received = [c \in Clients |->
                     IF c \in s.sseClients /\ chan[c] = "open"
                     THEN Append(@[c], message) ELSE @[c]],
     !.sseClients = {c \in @ : chan[c] = "open"}]

saveNextUpdateTime(s, nextTime, now) ==
  LET ipData == IF s.fileExists THEN s.file
                ELSE [DefaultDoc(now) EXCEPT !.nextUpdateTime = 0]
  IN [s EXCEPT !.fileExists = TRUE,
               !.file = [ipData EXCEPT !.nextUpdateTime = nextTime],
               !.nextUpdateTime = nextTime]

\* loadNextUpdateTime that ignores the persisted value
loadNextUpdateTimeAlwaysNew(s, now) ==
  saveNextUpdateTime(s, now + s.currentUpdateInterval * MinuteMs, now)

loadNextUpdateTime(s, now) ==
  IF s.fileExists /\ s.file.nextUpdateTime # 0
  THEN [s EXCEPT !.nextUpdateTime = s.file.nextUpdateTime]
  ELSE saveNextUpdateTime(s, now + s.currentUpdateInterval * MinuteMs, now)

\* scheduleNextUpdate without its clearTimeout(updateTimer)
clearTimeoutSkipped(s) == s

clearTimeout(s) ==
  IF s.updateTimer # NoTimer
  THEN [s EXCEPT !.timers = @ (-) SetToBag({s.updateTimer}), !.updateTimer = NoTimer]
  ELSE s

scheduleNextUpdate(s, now) ==
  LET s1 == clearTimeout(s)
      s2 == IF s1.nextUpdateTime <= now
            THEN saveNextUpdateTime(s1, now + s1.currentUpdateInterval * MinuteMs, now)
            ELSE s1
      delay == Max(MinTimerDelay, s2.nextUpdateTime - now)
  IN [s2 EXCEPT !.timers = @ (+) SetToBag({now + delay}),
                !.updateTimer = now + delay]

setupUpdateTimer(s, interval, now) ==
  LET s1 == [s EXCEPT !.currentUpdateInterval = Max(1, interval)]
  IN scheduleNextUpdate(loadNextUpdateTime(s1, now), now)

\* console messages of updateIPAddresses
LogTooSoon == "Skipping update - too soon since last update"
LogStarting == "Starting IP address update..."
LogDisabled == "Auto-update is disabled, skipping update"
LogCompleted == "Update completed successfully"
LogError == "Error updating IP addresses"

\* updateIPAddresses without the check of autoUpdateEnabled
updateIPAddressesIgnoringFlag(s, now, by) ==
  IF now - s.lastUpdateTime < MIN_UPDATE_INTERVAL THEN [s EXCEPT !.log = LogTooSoon]
  ELSE [s EXCEPT !.log = LogStarting,
                 !.inflight =
          Append(@, [now |-> now, currentData |-> s.file, cand |-> 0, by |-> by])]

\* updateIPAddresses whose disabled branch returns without scheduleNextUpdate
updateIPAddressesDisabledReturns(s, now, by) ==
  IF now - s.lastUpdateTime < MIN_UPDATE_INTERVAL THEN [s EXCEPT !.log = LogTooSoon]
  ELSE IF ~s.fileExists
       THEN scheduleNextUpdate([s EXCEPT !.log = LogError], now)
  ELSE IF ~s.file.autoUpdateEnabled
       THEN [s EXCEPT !.log = LogDisabled]
       ELSE [s EXCEPT !.log = LogStarting,
                      !.inflight =
               Append(@, [now |-> now, currentData |-> s.file, cand |-> 0,
                          by |-> by])]

\* updateIPAddresses up to its first await; by is the caller, "timer" (the
\* setTimeout callback) or "settings" (POST /api/update-interval)
updateIPAddresses(s, now, by) ==
  IF now - s.lastUpdateTime < MIN_UPDATE_INTERVAL THEN [s EXCEPT !.log = LogTooSoon]
  ELSE IF ~s.fileExists
       THEN scheduleNextUpdate([s EXCEPT !.log = LogError], now)
  ELSE IF ~s.file.autoUpdateEnabled
       THEN scheduleNextUpdate(scheduleNextUpdate([s EXCEPT !.log = LogDisabled], now), now)
       ELSE [s EXCEPT !.log = LogStarting,
                      !.inflight =
               Append(@, [now |-> now, currentData |-> s.file, cand |-> 0,
                          by |-> by])]

\* ------------------------------------------------------ the fetch chain
\* the text one attempt leaves in csvText (EmptyText when the attempt failed)
AttemptText(cand, r) ==
  IF r.kind \in {"throw", "notok"} THEN EmptyText
  ELSE IF cand > 0 /\ corsProxies[cand] = JsonProxy
       THEN (IF r.kind = "json" THEN r.text ELSE EmptyText)  \* response.json()
       ELSE r.text                                             \* response.text()

\* ----------------------------------------------------------- change detector
NotIn(seq, other) ==
  LET Keep(ip) == ip \notin Range(other) IN SelectSeq(seq, Keep)

Added(old, new) == NotIn(new, old)

\* removed computed from the new list
RemovedFromNew(old, new) == NotIn(new, old)

Removed(old, new) == NotIn(old, new)

HasChanges(old, new) == Added(old, new) # <<>> \/ Removed(old, new) # <<>>

ChangelogEntry(old, new, updateTime) ==
  [date |-> updateTime, ipAddresses |-> new,
   added |-> Added(old, new), removed |-> Removed(old, new)]

\* CycleChangelog without the test of added.length and removed.length
CycleChangelogAlways(changelog, old, new, updateTime) ==
  Slice(<<ChangelogEntry(old, new, updateTime)>> \o changelog, ChangelogCap)

\* currentData.changelog = [entry, ...changelog].slice(0, 10)
CycleChangelog(changelog, old, new, updateTime) ==
  IF HasChanges(old, new)
  THEN Slice(<<ChangelogEntry(old, new, updateTime)>> \o changelog, ChangelogCap)
  ELSE changelog

\* ------------------------------------ updateIPAddresses after the last await
\* the success path: everything between "Update files" and the notifyClients
PersistCycle(s, c, ipv4List, nowC) ==
  LET updateTime == nowC
      newNextUpdateTime == c.now + c.currentData.updateInterval * MinuteMs
      doc == [c.currentData EXCEPT
                !.changelog = CycleChangelog(@, c.currentData.ipAddresses, ipv4List, updateTime),
                !.lastUpdated = updateTime,
                !.ipAddresses = ipv4List,
                !.nextUpdateTime = newNextUpdateTime]
      s1 == [s EXCEPT !.lastUpdateTime = c.now,
                      !.ipv4txt = ipv4List,
                      !.fileExists = TRUE,
                      !.file = doc,
                      !.nextUpdateTime = newNextUpdateTime,
                      !.lastUpdateTxt = updateTime]
  IN [notifyClients(s1, [type |-> "update", lastUpdated |-> updateTime,
                         nextUpdateTime |-> newNextUpdateTime])
        EXCEPT !.log = LogCompleted]

\* CycleThrows without the check of ipv4List.length
CycleThrowsOnEmptyTextOnly(csvText) == Falsy(csvText)

\* the cycle throws: no source gave a text, or no address was found in it
CycleThrows(csvText) == Falsy(csvText) \/ ExtractIpv4List(csvText) = <<>>

\* the catch block: only logs
CatchCycleError(s) == [s EXCEPT !.log = LogError]

\* CompleteCycle that reschedules at the end of the try block, not in finally
CompleteCycleNoFinally(s, c, csvText, nowC) ==
  IF CycleThrows(csvText) THEN CatchCycleError(s)
  ELSE scheduleNextUpdate(PersistCycle(s, c, ExtractIpv4List(csvText), nowC), nowC)

\* try { ... } catch { log } finally { scheduleNextUpdate() }
CompleteCycle(s, c, csvText, nowC) ==
  scheduleNextUpdate(
    IF CycleThrows(csvText) THEN CatchCycleError(s)
    ELSE PersistCycle(s, c, ExtractIpv4List(csvText), nowC),
    nowC)

LogTrying == "Trying CORS proxies..."

RemoveAt(seq, k) == SubSeq(seq, 1, k - 1) \o SubSeq(seq, k + 1, Len(seq))

\* the attempt of cycle k is the last one: its text ends the chain
EndsChain(c, r) == ~Falsy(AttemptText(c.cand, r)) \/ c.cand = Len(corsProxies)

\* ---------------------------------------------------------------- actions
LogsBounded(s) == \A c \in Clients : Len(s.received[c]) <= MaxReceived

StoreBounded(s) ==
  /\ Len(s.inflight) <= MaxCycles
  /\ Len(s.file.changelog) <= MaxChangelogLen
  /\ LogsBounded(s)

\* one step of the server code: s is the state it leaves
Step(s) ==
  /\ StoreBounded(s)
  /\ Commit(s)
  /\ UNCHANGED <<clock, running, chan>>

LogListening == "HTTP Server running"
LogDown == "(no process)"
LogReceived == "Received update request"
LogSkipTrigger == "Skipping update, last update was ... ago"

ModuleState(s) ==
  [s EXCEPT !.currentUpdateInterval = DEFAULT_UPDATE_INTERVAL,
            !.updateTimer = NoTimer, !.timers = EmptyBag,
            !.nextUpdateTime = 0, !.lastUpdateTime = 0,
            !.sseClients = {}, !.inflight = <<>>, !.log = LogDown]

\* the top-level script: create ipData.json, apply its settings, start the timer
StartupScript(s, now) ==
  LET s1 == IF s.fileExists THEN s
            ELSE [s EXCEPT !.fileExists = TRUE, !.file = DefaultDoc(now)]
      s2 == IF s1.file.updateInterval # 0
            THEN [s1 EXCEPT !.currentUpdateInterval = s1.file.updateInterval]
            ELSE s1
      s3 == loadNextUpdateTime(s2, now)
  IN [setupUpdateTimer(s3, s3.currentUpdateInterval, now) EXCEPT !.log = LogListening]

Startup ==
  /\ ~running
  /\ running' = TRUE
  /\ StoreBounded(StartupScript(St, clock))
  /\ Commit(StartupScript(St, clock))
  /\ UNCHANGED <<clock, chan>>

\* the process stops: memory, timers and connections are lost, files stay
Crash ==
  /\ running
  /\ running' = FALSE
  /\ Commit([ModuleState(St) EXCEPT !.received = [c \in Clients |-> <<>>]])
  /\ chan' = [c \in Clients |-> "none"]
  /\ UNCHANGED clock

TimerDue == \E t \in BagToSet(timers) : t <= clock

TickSteps == {3000, MinuteMs}

Tick(d) ==
  /\ ~TimerDue
  /\ clock + d <= MaxTime
  /\ d < MinuteMs => ((clock - StartTime) % MinuteMs) + d <= MaxOffset
  /\ clock' = clock + d
  /\ UNCHANGED <<running, fileExists, file, ipv4txt, lastUpdateTxt,
                 currentUpdateInterval, updateTimer, timers, nextUpdateTime,
                 lastUpdateTime, sseClients, chan, received, inflight, log,
                 hook>>

\* setTimeout callback: await updateIPAddresses()
TimerFire(t) ==
  /\ running
  /\ t \in BagToSet(timers)
  /\ t <= clock
  /\ Step(updateIPAddresses([St EXCEPT !.timers = @ (-) SetToBag({t})], clock, "timer"))

\* a fetch of in-flight cycle k resolves with r
FetchReturn(k, r) ==
  /\ running
  /\ k \in 1..Len(inflight)
  /\ LET c == inflight[k]
     IN IF EndsChain(c, r)
        THEN Step(CompleteCycle([St EXCEPT !.inflight = RemoveAt(@, k)],
                                c, AttemptText(c.cand, r), clock))
        ELSE Step([St EXCEPT !.inflight[k].cand = c.cand + 1,
                             !.log = LogTrying])

\* the text the chain of cycle c ends with when its attempts from c.cand on
\* resolve with rs[c.cand + 1], rs[c.cand + 2], ...
RECURSIVE ChainText(_, _)
ChainText(cand, rs) ==
  IF ~Falsy(AttemptText(cand, rs[cand + 1])) \/ cand = Len(corsProxies)
  THEN AttemptText(cand, rs[cand + 1])
  ELSE ChainText(cand + 1, rs)

\* runs of a cycle's fetch chain, one response per candidate: the last
\* relay unwraps TextA; a relay answers a text without addresses; every
\* candidate fails (the last relay's body is not JSON)
CycleRuns ==
  { <<RThrow, RNotOk, ROk(EmptyText), RNotOk, RJson(TextA)>>,
    <<RThrow, ROk(NoMatchText), ROk(TextA), RThrow, RThrow>>,
    <<RNotOk, RNotOk, RThrow, RNotOk, ROk(TextA)>> }

\* runs that change the address list: the direct request answers TextA,
\* the second relay answers TextB
ChangingRuns ==
  { <<ROk(TextA), RThrow, RThrow, RThrow, RThrow>>,
    <<RNotOk, RThrow, ROk(TextB), RThrow, RThrow>> }

\* all the remaining fetches of in-flight cycle k resolve, one after the
\* other, before any other handler runs
CycleReturn(k, rs) ==
  /\ running
  /\ k \in 1..Len(inflight)
  /\ LET c == inflight[k]
     IN Step(CompleteCycle([St EXCEPT !.inflight = RemoveAt(@, k)],
                           c, ChainText(c.cand, rs), clock))

\* ------------------------------------------------ POST /api/update-interval
IntervalInputs == {0, 1, 2}          \* 0: absent or below 1

AutoInputs == {"absent", "true", "false"}

\* the "interval" branch entered for every number from 0 on
IntervalBranchFromZero(h, interval, now) ==
  IF interval >= 0
  THEN LET newNextUpdateTime == now + interval * MinuteMs
           ipData == [h.ipData EXCEPT !.updateInterval = interval,
                                      !.nextUpdateTime = newNextUpdateTime]
           s1 == [h.s EXCEPT !.currentUpdateInterval = interval,
                             !.nextUpdateTime = newNextUpdateTime]
           s2 == setupUpdateTimer(s1, interval, now)
       IN [ipData |-> ipData,
           s |-> notifyClients(s2, [type |-> "settingsChange",
                                    updateInterval |-> interval,
                                    nextUpdateTime |-> newNextUpdateTime])]
  ELSE h

\* the "interval" branch; ipData is the handler's local copy of the document
IntervalBranch(h, interval, now) ==
  IF interval >= 1
  THEN LET newNextUpdateTime == now + interval * MinuteMs
           ipData == [h.ipData EXCEPT !.updateInterval = interval,
                                      !.nextUpdateTime = newNextUpdateTime]
           s1 == [h.s EXCEPT !.currentUpdateInterval = interval,
                             !.nextUpdateTime = newNextUpdateTime]
           s2 == setupUpdateTimer(s1, interval, now)
       IN [ipData |-> ipData,
           s |-> notifyClients(s2, [type |-> "settingsChange",
                                    updateInterval |-> interval,
                                    nextUpdateTime |-> newNextUpdateTime])]
  ELSE h

\* the "autoUpdateEnabled" branch
AutoBranch(h, auto, now) ==
  IF auto # "absent"
  THEN LET autoUpdateEnabled == (auto = "true")
           ipData == [h.ipData EXCEPT !.autoUpdateEnabled = autoUpdateEnabled]
           s1 == IF autoUpdateEnabled
                 THEN (IF now - h.s.lastUpdateTime >= MIN_UPDATE_INTERVAL
                       THEN updateIPAddresses(h.s, now, "settings")
                       ELSE [h.s EXCEPT !.log = LogSkipTrigger])
                 ELSE h.s
       IN [ipData |-> ipData,
           s |-> notifyClients(s1, [type |-> "settingsChange",
                                    autoUpdateEnabled |-> autoUpdateEnabled,
                                    nextUpdateTime |-> s1.nextUpdateTime])]
  ELSE h

\* the whole handler: read, both branches, writeFileSync(ipDataPath, ipData)
UpdateIntervalHandler(s, interval, auto, now) ==
  LET h0 == [ipData |-> s.file, s |-> [s EXCEPT !.log = LogReceived]]
      h2 == AutoBranch(IntervalBranch(h0, interval, now), auto, now)
  IN [h2.s EXCEPT !.file = h2.ipData]

PostUpdateInterval(interval, auto) ==
  /\ running
  /\ fileExists
  /\ Step(UpdateIntervalHandler(St, interval, auto, clock))

\* console.error of the handler's catch block
LogSettingsError == "Error updating settings"

\* the handler when its writeFileSync(ipDataPath, ipData) throws: both
\* branches have run, the document is not written, the catch answers 500
UpdateIntervalHandlerWriteFails(s, interval, auto, now) ==
  LET h0 == [ipData |-> s.file, s |-> [s EXCEPT !.log = LogReceived]]
      h2 == AutoBranch(IntervalBranch(h0, interval, now), auto, now)
  IN [h2.s EXCEPT !.log = LogSettingsError]

PostUpdateIntervalWriteFails(interval, auto) ==
  /\ running
  /\ fileExists
  /\ Step(UpdateIntervalHandlerWriteFails(St, interval, auto, clock))

\* what GET /api/settings answers
GetSettings ==
  [updateInterval |-> IF file.updateInterval # 0 THEN file.updateInterval
                      ELSE DEFAULT_UPDATE_INTERVAL,
   autoUpdateEnabled |-> file.autoUpdateEnabled,
   nextUpdateTime |-> nextUpdateTime]

\* ----------------------------------------------- POST /api/update-changelog
PostedEntry(now) ==
  [date |-> now, ipAddresses |-> <<A3>>, added |-> <<A3>>, removed |-> <<>>]

UpdateChangelogHandler(s, entry) ==
  [s EXCEPT !.file.changelog = Slice(<<entry>> \o @, ChangelogCap)]

PostUpdateChangelog ==
  /\ running
  /\ fileExists
  /\ Step(UpdateChangelogHandler(St, PostedEntry(clock)))

\* ------------------------------------------------ POST /api/update-ip-file
\* fetchStarlinkAddresses: the direct request, then three relays; the text
\* of the first 2xx response, whatever it is
RECURSIVE fetchStarlinkAddresses(_)
fetchStarlinkAddresses(rs) ==
  IF rs = <<>> THEN [ok |-> FALSE, text |-> EmptyText]
  ELSE IF Head(rs).kind = "raw" THEN [ok |-> TRUE, text |-> Head(rs).text]
  ELSE fetchStarlinkAddresses(Tail(rs))

\* processCSVData without the check of ipv4List.length
ProcessThrowsOnEmptyTextOnly(csvText) == Falsy(csvText)

\* processCSVData throws on an empty text or on zero matches
ProcessThrows(csvText) == Falsy(csvText) \/ ExtractIpv4List(csvText) = <<>>

HandlerDoc(updateTime) ==
  [lastUpdated |-> updateTime, ipAddresses |-> <<>>,
   updateInterval |-> HandlerDefaultInterval, autoUpdateEnabled |-> TRUE,
   changelog |-> <<>>, nextUpdateTime |-> 0]

\* the handler's changelog step: no entry while the old list is empty
HandlerChangelog(changelog, old, new, updateTime) ==
  IF old # <<>> /\ HasChanges(old, new)
  THEN <<ChangelogEntry(old, new, updateTime)>> \o changelog
  ELSE changelog

\* console.error of the handler's catch block
LogHandlerError == "Error updating IP file"

ForcedRefresh(s, rs, now) ==
  LET got == fetchStarlinkAddresses(rs)
      fresh == ExtractIpv4List(got.text)
      ipData == IF s.fileExists THEN s.file ELSE HandlerDoc(now)
  IN IF ~got.ok \/ ProcessThrows(got.text) THEN [s EXCEPT !.log = LogHandlerError]
     ELSE [s EXCEPT
             !.ipv4txt = fresh,
             !.lastUpdateTxt = now,
             !.fileExists = TRUE,
             !.file = [ipData EXCEPT
                         !.changelog = HandlerChangelog(@, ipData.ipAddresses, fresh, now),
                         !.ipAddresses = fresh,
                         !.lastUpdated = now]]

\* the runs of the handler's fetch chain that are explored
HandlerRuns ==
  { <<ROk(TextA), RThrow, RThrow, RThrow>>,
    <<RNotOk, RThrow, ROk(TextB), RThrow>>,
    <<RThrow, ROk(NoMatchText), ROk(TextA), RThrow>>,
    <<RNotOk, RNotOk, RThrow, RNotOk>> }

UpdateIpFileForced(rs) ==
  /\ running
  /\ Step(ForcedRefresh(St, rs, clock))

ProvidedLists == { <<A3>> }

\* the branch that writes the caller's list to ipv4.txt
UpdateIpFileProvided(ipAddresses) ==
  /\ running
  /\ Step([St EXCEPT !.ipv4txt = ipAddresses])

\* -------------------------------------------------------- GET /api/updates
\* a connected event built from the defaults, not from the current settings
ConnectedEventDefaults(now) ==
  [type |-> "connected",
   updateInterval |-> DEFAULT_UPDATE_INTERVAL,
   nextUpdateTime |-> now + DEFAULT_UPDATE_INTERVAL * MinuteMs]

ConnectedEvent(now) ==
  [type |-> "connected",
   updateInterval |-> currentUpdateInterval,
   nextUpdateTime |-> IF nextUpdateTime # 0 THEN nextUpdateTime
                      ELSE now + currentUpdateInterval * MinuteMs]

Connect(c) ==
  /\ running
  /\ chan[c] = "none"
  /\ chan' = [chan EXCEPT ![c] = "open"]
  /\ Commit([St EXCEPT !.received[c] = <<ConnectedEvent(clock)>>,
                       !.sseClients = @ \cup {c}])
  /\ UNCHANGED <<clock, running>>

\* a close handler that stops the timer when the last subscriber leaves
ClientCloseStopsTimer(c) ==
  /\ running
  /\ chan[c] # "none"
  /\ chan' = [chan EXCEPT ![c] = "none"]
  /\ Commit(IF sseClients \ {c} = {}
            THEN clearTimeout([St EXCEPT !.sseClients = @ \ {c}])
            ELSE [St EXCEPT !.sseClients = @ \ {c}])
  /\ UNCHANGED <<clock, running>>

\* req.on('close') / req.on('error')
ClientClose(c) ==
  /\ running
  /\ chan[c] # "none"
  /\ chan' = [chan EXCEPT ![c] = "none"]
  /\ Commit([St EXCEPT !.sseClients = @ \ {c}])
  /\ UNCHANGED <<clock, running>>

\* the connection fails; the next write to it throws
ChannelBreak(c) ==
  /\ running
  /\ chan[c] = "open"
  /\ chan' = [chan EXCEPT ![c] = "broken"]
  /\ Commit(St)
  /\ UNCHANGED <<clock, running>>

\* ------------------------------- POST /api/trigger-update (src/server.js)
\* The manual-update server: no timer and no subscribers; a request runs
\* updateIPAddresses and answers when it has ended.
LogManualStarting == "Manual update: Starting IP address update..."
LogManualCompleted == "Manual update: Update completed successfully"
LogTriggerError == "Error triggering manual update"
LogManualListening == "Server running on port"

\* the document written when ipData.json does not exist
ManualDoc(now) == [lastUpdated |-> now, ipAddresses |-> <<>>, changelog |-> <<>>]

ManualStartup ==
  /\ ~running
  /\ running' = TRUE
  /\ Commit([St EXCEPT !.fileExists = TRUE,
                       !.file = IF fileExists THEN file ELSE ManualDoc(clock),
                       !.log = LogManualListening])
  /\ UNCHANGED <<clock, chan>>

\* what the handler answers: 200 unless updateIPAddresses threw
TriggerStatus(lastLog) == IF lastLog = LogTriggerError THEN 500 ELSE 200

\* the write that throws during a run, if any
WriteFailures == {"none", "ipv4.txt", "ipData.json", "last-update.txt"}

\* updateIPAddresses up to its first await: the document is read here
ManualUpdateStart(s, now) ==
  [s EXCEPT !.log = LogManualStarting,
            !.inflight = Append(@, [now |-> now, currentData |-> s.file,
                                    cand |-> 0, by |-> "manual"])]

\* updateIPAddresses after its last await, then the handler's answer
ManualUpdateEnd(s, c, csvText, nowC, failing) ==
  IF CycleThrows(csvText) THEN [s EXCEPT !.log = LogTriggerError]
  ELSE
    LET ipv4List == ExtractIpv4List(csvText)
        doc == [c.currentData EXCEPT
                  !.changelog = CycleChangelog(@, c.currentData.ipAddresses, ipv4List, nowC),
                  !.lastUpdated = nowC,
                  !.ipAddresses = ipv4List]
    IN CASE failing = "ipv4.txt" -> [s EXCEPT !.log = LogTriggerError]
         [] failing = "ipData.json" ->
              [s EXCEPT !.ipv4txt = ipv4List, !.log = LogTriggerError]
         [] failing = "last-update.txt" ->
              [s EXCEPT !.ipv4txt = ipv4List, !.file = doc, !.log = LogTriggerError]
         [] OTHER ->
              [s EXCEPT !.ipv4txt = ipv4List, !.file = doc, !.lastUpdateTxt = nowC,
                        !.log = LogManualCompleted]

TriggerUpdate ==
  /\ running
  /\ Step(ManualUpdateStart(St, clock))

\* the remaining fetches of run k resolve as rs, and the run ends
TriggerReturn(k, rs, failing) ==
  /\ running
  /\ k \in 1..Len(inflight)
  /\ LET c == inflight[k]
     IN Step(ManualUpdateEnd([St EXCEPT !.inflight = RemoveAt(@, k)],
                             c, ChainText(c.cand, rs), clock, failing))

\* ------------------------- the client hook (src/hooks/useStarlinkData.ts)
\* One mounted instance of useStarlinkData: its refs, the React state the
\* event stream sets, its pending timers, its requests in flight and the
\* EventSource objects it has created.
ReleaseDelay == 1000
ReconnectDelay == 5000
HookDefaultInterval == 60
ClientMinUpdateInterval == 5000

HookLogSkipping == "Fetch already in progress, skipping..."
HookLogTriggered == "Server update triggered successfully"
HookLogFetchError == "Fetch error"
HookLogMounted == "(mounted)"

\* new EventSource('/api/updates'), with or without the effect's handlers
\* (delivered counts the events the browser has dispatched on the object)
NewSource(handlers) ==
  [state |-> "connecting", handlers |-> handlers, delivered |-> 0]

\* the instance after its first render and effects
HookInit ==
  [isFetchingRef |-> FALSE,
   posts |-> 0,                 \* POST /api/trigger-update requests in flight
   tail |-> 0,                  \* fetchData calls past the POST, not yet ended
   releaseTimers |-> EmptyBag,  \* fire times of the timers of finally
   log |-> HookLogMounted,
   sources |-> <<NewSource(TRUE)>>,
   eventSourceRef |-> 1,        \* index into sources
   reconnectTimers |-> EmptyBag,
   sseConnected |-> FALSE,
   lastUpdateTimeRef |-> 0,
   lastUpdated |-> 0,
   nextUpdateTime |-> 0,
   updateInterval |-> HookDefaultInterval,
   autoUpdateEnabled |-> TRUE]

\* fetchData without the test of isFetchingRef
fetchDataUnguarded(h) ==
  [h EXCEPT !.isFetchingRef = TRUE, !.posts = @ + 1]

\* fetchData up to its first await: the guard, the flag, the POST
fetchData(h) ==
  IF h.isFetchingRef THEN [h EXCEPT !.log = HookLogSkipping]
  ELSE [h EXCEPT !.isFetchingRef = TRUE, !.posts = @ + 1]

\* finally: setTimeout(() => { isFetchingRef.current = false }, 1000)
fetchDataFinally(h, now) ==
  [h EXCEPT !.releaseTimers = @ (+) SetToBag({now + ReleaseDelay})]

\* the POST is answered: 2xx lets the call go on, anything else (or a
\* network error) throws into catch and finally
fetchDataAnswered(h, ok, now) ==
  IF ok THEN [h EXCEPT !.posts = @ - 1, !.tail = @ + 1, !.log = HookLogTriggered]
  ELSE fetchDataFinally([h EXCEPT !.posts = @ - 1, !.log = HookLogFetchError], now)

\* the rest of the call (the 2 s wait and the reloads) ends or throws
fetchDataRest(h, ok, now) ==
  fetchDataFinally([h EXCEPT !.tail = @ - 1,
                             !.log = IF ok THEN @ ELSE HookLogFetchError], now)

server == <<running, fileExists, file, ipv4txt, lastUpdateTxt,
            currentUpdateInterval, updateTimer, timers, nextUpdateTime,
            lastUpdateTime, sseClients, chan, received, inflight, log>>

\* one step of the hook's code: h is the state it leaves
HookStep(h) ==
  /\ h.posts + h.tail <= MaxCalls
  /\ Len(h.sources) <= MaxSources
  /\ BagCardinality(h.reconnectTimers) <= MaxReconnects
  /\ \A i \in 1..Len(h.sources) : h.sources[i].delivered <= MaxDelivered
  /\ hook' = h
  /\ UNCHANGED <<clock, server>>

\* a caller (the page, the toolbar) calls fetchData
FetchDataCall == HookStep(fetchData(hook))

\* window event 'fetch-starlink-data'
HandleFetchEvent ==
  /\ ~hook.isFetchingRef
  /\ HookStep(fetchData(hook))

TriggerAnswered(ok) ==
  /\ hook.posts > 0
  /\ HookStep(fetchDataAnswered(hook, ok, clock))

FetchDataEnds(ok) ==
  /\ hook.tail > 0
  /\ HookStep(fetchDataRest(hook, ok, clock))

\* the timer of finally fires (no sooner than its time)
ReleaseFire(t) ==
  /\ t \in BagToSet(hook.releaseTimers)
  /\ t <= clock
  /\ HookStep([hook EXCEPT !.isFetchingRef = FALSE,
                           !.releaseTimers = @ (-) SetToBag({t})])

\* ---- the event-stream effect of the hook
HookLogIgnoring == "Ignoring update"
HookLogSseError == "SSE connection error - will reconnect automatically"
HookLogSseOpen == "SSE connection established"

\* the messages the server can send on /api/updates
UpdateEvents ==
  {[type |-> "update", lastUpdated |-> lu, nextUpdateTime |-> nut,
    updateInterval |-> 0, autoUpdateEnabled |-> TRUE] :
     lu \in {StartTime + 1}, nut \in {StartTime + MinuteMs}}
SettingsChangeEvents ==
  {[type |-> "settingsChange", lastUpdated |-> 0, nextUpdateTime |-> nut,
    updateInterval |-> iv, autoUpdateEnabled |-> a] :
     nut \in {0, StartTime + 2 * MinuteMs}, iv \in {1, 2}, a \in BOOLEAN}
ConnectedEvents ==
  {[type |-> "connected", lastUpdated |-> 0, nextUpdateTime |-> StartTime + 3 * MinuteMs,
    updateInterval |-> 3, autoUpdateEnabled |-> TRUE]}
SseEvents == UpdateEvents \cup SettingsChangeEvents \cup ConnectedEvents

OpenSources(h) == {i \in 1..Len(h.sources) : h.sources[i].state # "closed"}

\* eventSourceRef.current.close()
closeCurrent(h) ==
  IF h.eventSourceRef = 0 THEN h
  ELSE [h EXCEPT !.sources[h.eventSourceRef].state = "closed"]

\* the effect's body: a new EventSource with onopen, onmessage, onerror
sseEffect(h) ==
  [h EXCEPT !.sources = Append(@, NewSource(TRUE)),
            !.eventSourceRef = Len(h.sources) + 1]

\* autoUpdateEnabled changed: React runs the cleanup, then the effect
rerunEffect(h) == sseEffect(closeCurrent(h))

\* eventSource.onmessage
onmessage(h, e, now) ==
  CASE e.type = "update" ->
         IF now - h.lastUpdateTimeRef >= ClientMinUpdateInterval
         THEN [h EXCEPT !.lastUpdateTimeRef = now,
                        !.lastUpdated = IF e.lastUpdated # 0 THEN e.lastUpdated ELSE @,
                        !.nextUpdateTime = IF e.nextUpdateTime # 0 THEN e.nextUpdateTime ELSE @]
         ELSE [h EXCEPT !.log = HookLogIgnoring]
    [] e.type = "settingsChange" ->
         LET h1 == [h EXCEPT !.updateInterval = e.updateInterval,
                             !.autoUpdateEnabled = e.autoUpdateEnabled,
                             !.nextUpdateTime = e.nextUpdateTime]
         IN IF e.autoUpdateEnabled # h.autoUpdateEnabled THEN rerunEffect(h1) ELSE h1
    [] OTHER ->
         [h EXCEPT !.updateInterval = e.updateInterval,
                   !.nextUpdateTime = e.nextUpdateTime]

\* eventSource.onerror: the reconnect timer is armed
onerror(h, now) ==
  [h EXCEPT !.sseConnected = FALSE, !.log = HookLogSseError,
            !.reconnectTimers = @ (+) SetToBag({now + ReconnectDelay})]

\* the reconnect timer's callback: close, then a bare new EventSource
reconnect(h) ==
  IF h.eventSourceRef = 0 THEN h
  ELSE [closeCurrent(h) EXCEPT !.sources = Append(@, NewSource(FALSE)),
                               !.eventSourceRef = Len(h.sources) + 1]

\* the browser opens the connection of source i
SourceOpens(i) ==
  /\ hook.sources[i].state = "connecting"
  /\ LET h == [hook EXCEPT !.sources[i].state = "open"]
     IN HookStep(IF hook.sources[i].handlers
                 THEN [h EXCEPT !.sseConnected = TRUE, !.log = HookLogSseOpen]
                 ELSE h)

\* the connection of source i fails: the browser retries by itself
\* (connecting) or gives up (closed), and dispatches error
SourceError(i, fatal) ==
  /\ hook.sources[i].state # "closed"
  /\ LET h == [hook EXCEPT !.sources[i].state =
                               IF fatal THEN "closed" ELSE "connecting"]
     IN HookStep(IF hook.sources[i].handlers THEN onerror(h, clock) ELSE h)

ReconnectFire(t) ==
  /\ t \in BagToSet(hook.reconnectTimers)
  /\ t <= clock
  /\ HookStep(reconnect([hook EXCEPT !.reconnectTimers = @ (-) SetToBag({t})]))

\* the browser dispatches message e on source i
Message(i, e) ==
  /\ hook.sources[i].state = "open"
  /\ LET h == [hook EXCEPT !.sources[i].delivered = @ + 1]
     IN HookStep(IF hook.sources[i].handlers THEN onmessage(h, e, clock) ELSE h)

HookTickSteps == {1000, MinuteMs}

\* ------------------------------------------------------------ specification
Doc(interval, auto, ips, next) ==
  [lastUpdated |-> StartTime - MinuteMs, ipAddresses |-> ips,
   updateInterval |-> interval, autoUpdateEnabled |-> auto,
   changelog |-> <<>>, nextUpdateTime |-> next]

\* the documents found on disk when the process starts
InitDocs ==
  { Doc(1, TRUE, <<>>, 0),
    Doc(1, TRUE, <<A1, A2>>, StartTime - 30000),
    Doc(2, FALSE, <<A1, A2>>, StartTime + MinuteMs),
    Doc(1, TRUE, <<A1, A2>>, StartTime + 500) }

\* the process has not started; the disk holds no document or one of docs
InitWith(docs, mayBeAbsent) ==
  /\ clock = StartTime
  /\ running = FALSE
  /\ \/ /\ mayBeAbsent
        /\ fileExists = FALSE
        /\ file = DefaultDoc(0)
     \/ /\ fileExists = TRUE
        /\ file \in docs
  /\ ipv4txt = IF fileExists THEN file.ipAddresses ELSE <<>>
  /\ lastUpdateTxt = 0
  /\ currentUpdateInterval = DEFAULT_UPDATE_INTERVAL
  /\ updateTimer = NoTimer
  /\ timers = EmptyBag
  /\ nextUpdateTime = 0
  /\ lastUpdateTime = 0
  /\ sseClients = {}
  /\ chan = [c \in Clients |-> "none"]
  /\ received = [c \in Clients |-> <<>>]
  /\ inflight = <<>>
  /\ log = LogDown
  /\ hook = HookInit

Init == InitWith(InitDocs, TRUE)

Next ==
  \/ Startup
  \/ Crash
  \/ \E d \in TickSteps : Tick(d)
  \/ \E t \in BagToSet(timers) : TimerFire(t)
  \/ \E k \in 1..Len(inflight) : \E r \in Responses(inflight[k].cand) : FetchReturn(k, r)
  \/ \E i \in IntervalInputs, a \in AutoInputs : PostUpdateInterval(i, a)
  \/ PostUpdateChangelog
  \/ \E rs \in HandlerRuns : UpdateIpFileForced(rs)
  \/ \E l \in ProvidedLists : UpdateIpFileProvided(l)
  \/ \E c \in Clients : Connect(c)
  \/ \E c \in Clients : ClientClose(c)
  \/ \E c \in Clients : ChannelBreak(c)

Spec == Init /\ [][Next]_vars

\* the scheduler alone: timer, cycles and settings writes
NextScheduler ==
  \/ Startup
  \/ \E d \in TickSteps : Tick(d)
  \/ \E t \in BagToSet(timers) : TimerFire(t)
  \/ \E k \in 1..Len(inflight) : \E rs \in CycleRuns : CycleReturn(k, rs)
  \/ \E i \in IntervalInputs, a \in AutoInputs : PostUpdateInterval(i, a)

InitScheduler == InitWith({Doc(1, TRUE, <<A1, A2>>, 0)}, FALSE)

SpecScheduler == InitScheduler /\ [][NextScheduler]_vars

\* restarts: the process stops and starts again on the document it left
NextRestart ==
  \/ Startup
  \/ Crash
  \/ \E d \in TickSteps : Tick(d)
  \/ \E t \in BagToSet(timers) : TimerFire(t)
  \/ \E k \in 1..Len(inflight) : \E rs \in CycleRuns : CycleReturn(k, rs)

SpecRestart == Init /\ [][NextRestart]_vars

\* the changelog: forced refreshes and posted entries
NextFeed ==
  \/ Startup
  \/ \E rs \in HandlerRuns : UpdateIpFileForced(rs)
  \/ \E l \in ProvidedLists : UpdateIpFileProvided(l)
  \/ PostUpdateChangelog

SpecFeed == InitScheduler /\ [][NextFeed]_vars

\* the subscribers: connections, settings writes and cycles that broadcast
SseIntervals == {0, 2}

NextSse ==
  /\ \/ Startup
     \/ \E c \in Clients : Connect(c)
     \/ \E c \in Clients : ClientClose(c)
     \/ \E c \in Clients : ChannelBreak(c)
     \/ \E i \in SseIntervals, a \in AutoInputs : PostUpdateInterval(i, a)
     \/ \E k \in 1..Len(inflight) : \E rs \in CycleRuns : CycleReturn(k, rs)
  /\ \A c \in Clients : Len(received'[c]) <= MaxSseReceived

SpecSse == InitScheduler /\ [][NextSse]_vars

\* the sources may never answer: the timer callbacks of the event loop run
\* and time passes, but nothing in updateIPAddresses ends an await of fetch
\* (no timeout, no abort signal), so a response is not certain to come
NextStall ==
  \/ Startup
  \/ \E d \in TickSteps : Tick(d)
  \/ \E t \in BagToSet(timers) : TimerFire(t)
  \/ \E k \in 1..Len(inflight) : \E rs \in CycleRuns : CycleReturn(k, rs)

FairStall ==
  /\ WF_vars(Startup)
  /\ WF_vars(\E d \in TickSteps : Tick(d))
  /\ WF_vars(\E t \in BagToSet(timers) : TimerFire(t))

SpecStall == Init /\ [][NextStall]_vars /\ FairStall

\* the fetch chains: the scheduler's cycle and the forced refresh of
\* POST /api/update-ip-file, each over runs in which an early candidate
\* answers 2xx with an empty body and a later one answers the feed
FetchRuns == CycleRuns \cup ChangingRuns

HandlerFallbackRuns ==
  HandlerRuns \cup { <<ROk(EmptyText), ROk(TextA), RThrow, RThrow>> }

NextFetch ==
  \/ Startup
  \/ \E d \in TickSteps : Tick(d)
  \/ \E t \in BagToSet(timers) : TimerFire(t)
  \/ \E k \in 1..Len(inflight) : \E rs \in FetchRuns : CycleReturn(k, rs)
  \/ \E rs \in HandlerFallbackRuns : UpdateIpFileForced(rs)
  \/ \E l \in ProvidedLists : UpdateIpFileProvided(l)

SpecFetch == InitScheduler /\ [][NextFetch]_vars

\* extraction and change detection: timer-driven cycles whose feed holds
\* any list of addresses (duplicates and any order included), over any
\* list left on disk
AddressLists == UNION { [1..n -> Cidrs] : n \in 0..MaxListLen }

\* the feed: a header line, then one line per address
TextOf(l) == << <<"network", "geoname">> >> \o [i \in 1..Len(l) |-> <<l[i], "123">>]

ExtractRuns == { <<ROk(TextOf(l)), RThrow, RThrow, RThrow, RThrow>> : l \in AddressLists }

ExtractDocs == { Doc(1, TRUE, l, 0) : l \in AddressLists }

InitExtract == InitWith(ExtractDocs, FALSE)

NextExtract ==
  \/ Startup
  \/ \E d \in TickSteps : Tick(d)
  \/ \E t \in BagToSet(timers) : TimerFire(t)
  \/ \E k \in 1..Len(inflight) : \E rs \in ExtractRuns : CycleReturn(k, rs)

SpecExtract == InitExtract /\ [][NextExtract]_vars

\* settings writes whose final write of ipData.json may fail
NextSettings ==
  \/ NextSse
  \/ /\ \E i \in SseIntervals, a \in AutoInputs : PostUpdateIntervalWriteFails(i, a)
     /\ \A c \in Clients : Len(received'[c]) <= MaxSseReceived

SpecSettings == InitScheduler /\ [][NextSettings]_vars

\* one subscriber that stays long enough to receive both events of a
\* settings write
NextConnect ==
  \/ Startup
  \/ Connect("c1")
  \/ ClientClose("c1")
  \/ \E i \in SseIntervals, a \in AutoInputs : PostUpdateInterval(i, a)
  \/ \E k \in 1..Len(inflight) : \E rs \in CycleRuns : CycleReturn(k, rs)

SpecConnect == InitScheduler /\ [][NextConnect]_vars

\* one subscriber listening while address lists are persisted (by cycles the
\* timer or a re-enabling settings write starts, and by forced refreshes)
\* and while the autoUpdateEnabled flag is switched
BroadcastRuns ==
  { <<ROk(TextA), RThrow, RThrow, RThrow>>,
    <<RNotOk, RNotOk, RThrow, RNotOk>> }

NextBroadcast ==
  \/ Startup
  \/ Connect("c1")
  \/ \E d \in TickSteps : Tick(d)
  \/ \E t \in BagToSet(timers) : TimerFire(t)
  \/ \E k \in 1..Len(inflight) : \E rs \in CycleRuns : CycleReturn(k, rs)
  \/ \E a \in {"true", "false"} : PostUpdateInterval(0, a)
  \/ \E rs \in BroadcastRuns : UpdateIpFileForced(rs)

SpecBroadcast == InitScheduler /\ [][NextBroadcast]_vars

\* the manual-update server: requests that overlap, feeds that change the
\* list, sources that fail, and writes that fail
TriggerRuns == CycleRuns \cup ChangingRuns

NextTrigger ==
  /\ \/ ManualStartup
     \/ \E d \in TickSteps : Tick(d)
     \/ TriggerUpdate
     \/ \E k \in 1..Len(inflight) : \E rs \in TriggerRuns, f \in WriteFailures :
          TriggerReturn(k, rs, f)
  /\ Len(file'.changelog) <= MaxChanges

SpecTrigger == InitWith({Doc(1, TRUE, <<A1, A2>>, 0)}, TRUE) /\ [][NextTrigger]_vars

\* the feed of the scenario: 14.1.64.0/24 and 14.1.65.0/24 until FeedChange,
\* 14.1.64.0/24 and 14.1.66.0/24 from then on; the store starts empty and
\* the direct request always answers
FeedChange == StartTime + 2 * MinuteMs

FeedAt(now) == IF now < FeedChange THEN TextA ELSE TextB

ScenarioCycleRun(now) == <<ROk(FeedAt(now)), RThrow, RThrow, RThrow, RThrow>>

ScenarioHandlerRun(now) == <<ROk(FeedAt(now)), RThrow, RThrow, RThrow>>

NextScenario ==
  \/ Startup
  \/ \E d \in TickSteps : Tick(d)
  \/ \E t \in BagToSet(timers) : TimerFire(t)
  \/ \E k \in 1..Len(inflight) : CycleReturn(k, ScenarioCycleRun(clock))
  \/ PostUpdateInterval(0, "true")
  \/ UpdateIpFileForced(ScenarioHandlerRun(clock))

SpecScenario == InitWith({Doc(1, TRUE, <<>>, 0)}, FALSE) /\ [][NextScenario]_vars

\* cycles that overlap (the timer's and those a settings write starts) over
\* feeds that change the list, so that each may persist a changelog entry
NextOverlap ==
  /\ \/ Startup
     \/ \E d \in TickSteps : Tick(d)
     \/ \E t \in BagToSet(timers) : TimerFire(t)
     \/ \E k \in 1..Len(inflight) : \E rs \in ChangingRuns : CycleReturn(k, rs)
     \/ \E i \in SseIntervals : PostUpdateInterval(i, "true")
  /\ Len(file'.changelog) <= MaxChanges

SpecOverlap == InitScheduler /\ [][NextOverlap]_vars

\* the hook's fetchData: calls at any time, answers of any kind
NextFetchData ==
  \/ \E d \in HookTickSteps : Tick(d)
  \/ FetchDataCall
  \/ HandleFetchEvent
  \/ \E ok \in BOOLEAN : TriggerAnswered(ok)
  \/ \E ok \in BOOLEAN : FetchDataEnds(ok)
  \/ \E t \in BagToSet(hook.releaseTimers) : ReleaseFire(t)

SpecFetchData == InitScheduler /\ [][NextFetchData]_vars

\* the hook's event stream: errors, reconnects and messages at any time
NextEventSource ==
  \/ \E d \in HookTickSteps : Tick(d)
  \/ \E i \in 1..Len(hook.sources) : SourceOpens(i)
  \/ \E i \in 1..Len(hook.sources), fatal \in BOOLEAN : SourceError(i, fatal)
  \/ \E t \in BagToSet(hook.reconnectTimers) : ReconnectFire(t)
  \/ \E i \in 1..Len(hook.sources), e \in SseEvents : Message(i, e)

SpecEventSource == InitScheduler /\ [][NextEventSource]_vars

\* ------------------------------------------------------------------ claims
\* the run rs of the fetch chain of a cycle at candidate cand gives no address
FailedRun(cand, rs) == ExtractIpv4List(ChainText(cand, rs)) = <<>>

OneTimerPendingAt(t) == timers = SetToBag({t}) /\ updateTimer = t

\* a step in which an in-flight cycle ends
CycleEnds == running' /\ Len(inflight') < Len(inflight)

OneTimerPending == OneTimerPendingAt(updateTimer)

\* C1: at most one pipeline cycle is in flight at any time
C1_AtMostOneCycleInFlight == Len(inflight) <= 1

\* C2: a settings write that sets the interval to i at time T leaves the
\* scheduler's nextUpdateTime (what GET /api/settings reports) and the pending
\* timer at T + i minutes
C2_IntervalChangeReschedules ==
  [][\A i \in IntervalInputs :
       (i >= 1 /\ PostUpdateInterval(i, "absent"))
       => /\ (GetSettings').nextUpdateTime = clock + i * MinuteMs
          /\ timers' = SetToBag({clock + i * MinuteMs})]_vars

\* C3: the completion of a failed cycle (no source gave a text, or the text
\* holds no address) leaves ipAddresses, lastUpdated, changelog and the
\* served feed as they were
C3_FailedCycleKeepsData ==
  [][\A k \in 1..Len(inflight) : \A rs \in CycleRuns :
       (CycleEnds /\ FailedRun(inflight[k].cand, rs) /\ CycleReturn(k, rs))
       => /\ file'.ipAddresses = file.ipAddresses
          /\ file'.lastUpdated = file.lastUpdated
          /\ file'.changelog = file.changelog
          /\ ipv4txt' = ipv4txt]_vars

C3_Witness ==
  /\ log = LogError
  /\ file.ipAddresses # <<>>
  /\ ipv4txt = file.ipAddresses
  /\ inflight = <<>>

C5_CycleKeepsSettings ==
  [][\A k \in 1..Len(inflight) : \A rs \in CycleRuns :
       CycleReturn(k, rs)
       => /\ file'.updateInterval = file.updateInterval
          /\ file'.autoUpdateEnabled = file.autoUpdateEnabled]_vars

\* C9: a settings write that turns autoUpdateEnabled from false to true, at
\* least 5 s after the last update, starts a cycle that fetches
C9_ReenableStartsCycle ==
  [][\A i \in IntervalInputs :
       (/\ ~file.autoUpdateEnabled
        /\ clock - lastUpdateTime >= MIN_UPDATE_INTERVAL
        /\ PostUpdateInterval(i, "true"))
       => Len(inflight') = Len(inflight) + 1]_vars

\* C10: a timer fire while the persisted autoUpdateEnabled is false starts no
\* fetch, leaves ipAddresses, lastUpdated and changelog alone and leaves one
\* pending timer set for a time in the future
C10_DisabledFireSkipsAndReschedules ==
  [][\A t \in BagToSet(timers) :
       (TimerFire(t) /\ ~file.autoUpdateEnabled)
       => /\ inflight' = inflight
          /\ file'.ipAddresses = file.ipAddresses
          /\ file'.lastUpdated = file.lastUpdated
          /\ file'.changelog = file.changelog
          /\ ipv4txt' = ipv4txt
          /\ updateTimer' > clock
          /\ OneTimerPending']_vars

C10_Witness ==
  /\ log = LogDisabled
  /\ ~file.autoUpdateEnabled
  /\ file.ipAddresses # <<>>
  /\ OneTimerPendingAt(clock + currentUpdateInterval * MinuteMs)

\* C6: the persisted changelog has at most 10 entries, newest first
C6_ChangelogBounded ==
  /\ Len(file.changelog) <= ChangelogCap
  /\ \A i, j \in 1..Len(file.changelog) :
       i < j => file.changelog[i].date >= file.changelog[j].date

\* the events a step appended to the log of client c
NewEvents(c) == SubSeq(received'[c], Len(received[c]) + 1, Len(received'[c]))

\* the number of events a settings write broadcasts
SettingsEvents(i, a) ==
  (IF i >= 1 THEN 1 ELSE 0) + (IF a # "absent" THEN 1 ELSE 0)

Delivered(c, n) ==
  /\ c \in sseClients'
  /\ Len(received'[c]) = Len(received[c]) + n
  /\ SubSeq(received'[c], 1, Len(received[c])) = received[c]

\* C7: a broadcast writes the event to every subscriber in the set whose
\* write succeeds, removes every subscriber whose write fails, and writes
\* nothing to a client that is not subscribed
C7_BroadcastReachesSubscribers ==
  [][/\ \A i \in SseIntervals, a \in AutoInputs :
          PostUpdateInterval(i, a)
          => \A c \in sseClients :
               IF chan[c] = "open"
               THEN /\ Delivered(c, SettingsEvents(i, a))
                    /\ \A n \in DOMAIN NewEvents(c) :
                         NewEvents(c)[n].type = "settingsChange"
               ELSE SettingsEvents(i, a) > 0
                      => c \notin sseClients' /\ received'[c] = received[c]
     /\ (CycleEnds /\ log' = LogCompleted)
          => \A c \in sseClients :
               IF chan[c] = "open"
               THEN /\ Delivered(c, 1)
                    /\ NewEvents(c)[1].type = "update"
                    /\ NewEvents(c)[1].lastUpdated = file'.lastUpdated
               ELSE c \notin sseClients' /\ received'[c] = received[c]
     /\ \A c \in Clients \ sseClients :
          received'[c] # received[c] => (chan[c] = "none" /\ chan'[c] = "open")]_vars

C7_Witness ==
  /\ chan["c1"] = "broken"
  /\ "c1" \notin sseClients
  /\ Len(received["c1"]) = 1
  /\ "c2" \in sseClients
  /\ Len(received["c2"]) = 2
  /\ received["c2"][2].type = "update"

\* C8 (as claimed): at startup a persisted nextUpdateTime in the future is
\* adopted unchanged, the timer is set for that very time and the document is
\* not rewritten; otherwise it is replaced by now + interval
C8_StartupHonoursPersisted ==
  [][Startup =>
       LET persisted == IF fileExists THEN file.nextUpdateTime ELSE 0
       IN IF persisted > clock
          THEN /\ nextUpdateTime' = persisted
               /\ file' = file
               /\ timers' = SetToBag({persisted})
               /\ updateTimer' = persisted
          ELSE /\ nextUpdateTime' = clock + currentUpdateInterval' * MinuteMs
               /\ file'.nextUpdateTime = nextUpdateTime'
               /\ timers' = SetToBag({nextUpdateTime'})
               /\ updateTimer' = nextUpdateTime']_vars

\* C8 (amended): as above, but the timer is set no sooner than one second
\* after startup
C8_StartupHonoursPersistedFloor ==
  [][Startup =>
       LET persisted == IF fileExists THEN file.nextUpdateTime ELSE 0
           fireAt == Max(persisted, clock + MinTimerDelay)
       IN IF persisted > clock
          THEN /\ nextUpdateTime' = persisted
               /\ file' = file
               /\ timers' = SetToBag({fireAt})
               /\ updateTimer' = fireAt
          ELSE /\ nextUpdateTime' = clock + currentUpdateInterval' * MinuteMs
               /\ file'.nextUpdateTime = nextUpdateTime'
               /\ timers' = SetToBag({nextUpdateTime'})
               /\ updateTimer' = nextUpdateTime']_vars

C8_Witness ==
  /\ log = LogListening
  /\ clock > StartTime
  /\ nextUpdateTime > clock
  /\ nextUpdateTime < clock + currentUpdateInterval * MinuteMs
  /\ file.nextUpdateTime = nextUpdateTime
  /\ OneTimerPendingAt(nextUpdateTime)

\* C11: every cycle in flight completes and leaves the scheduler with a
\* pending timer, also when a source never answers
C11_CycleAlwaysCompletes ==
  (inflight # <<>>) ~> (inflight = <<>> /\ OneTimerPending)

\* the body a candidate hands over: empty when it failed (transport error,
\* non-success status, empty body, or a body the relay's unwrap step rejects)
BodyOf(wrapped, r) ==
  IF r.kind = (IF wrapped THEN "json" ELSE "raw") THEN r.text ELSE EmptyText

\* the body of the first successful candidate of run rs from position i on;
\* jsonAt is the position of the JSON-wrapping relay (0: none)
RECURSIVE FirstBody(_, _, _)
FirstBody(rs, i, jsonAt) ==
  IF i > Len(rs) THEN EmptyText
  ELSE IF BodyOf(i = jsonAt, rs[i]) # EmptyText THEN BodyOf(i = jsonAt, rs[i])
  ELSE FirstBody(rs, i + 1, jsonAt)

\* the step persists the addresses of text t, or nothing when t has none
PersistsTextOrNothing(t) ==
  IF ExtractIpv4List(t) # <<>>
  THEN /\ file'.ipAddresses = ExtractIpv4List(t)
       /\ ipv4txt' = ExtractIpv4List(t)
  ELSE /\ file'.ipAddresses = file.ipAddresses
       /\ file'.changelog = file.changelog
       /\ file'.lastUpdated = file.lastUpdated
       /\ ipv4txt' = ipv4txt

C12_SchedulerChain ==
  \A k \in 1..Len(inflight) : \A rs \in FetchRuns :
    (CycleEnds /\ inflight[k].cand = 0 /\ CycleReturn(k, rs))
    => PersistsTextOrNothing(FirstBody(rs, 1, Len(corsProxies) + 1))

C12_HandlerChain ==
  \A rs \in HandlerFallbackRuns :
    (fileExists /\ UpdateIpFileForced(rs))
    => PersistsTextOrNothing(FirstBody(rs, 1, 0))

\* C12: both fetchers hand to extraction the body of the first candidate,
\* in list order, that succeeded (2xx with a non-empty body); when no
\* candidate succeeds nothing is persisted
C12_FirstSuccessIsUsed == [][C12_SchedulerChain /\ C12_HandlerChain]_vars

\* the order of the addresses as strings
Rank(ip) == CASE ip = A1 -> 1 [] ip = A2 -> 2 [] ip = A3 -> 3

\* no duplicates, ascending, non-empty, every element an a.b.c.d/n string
SortedSet(l) ==
  /\ l # <<>>
  /\ \A i \in 1..Len(l) : l[i] \in Cidrs
  /\ \A i \in 1..Len(l) - 1 : Rank(l[i]) < Rank(l[i + 1])

\* C13: the list a cycle persists has no duplicates, is ascending and
\* non-empty, and holds only CIDR strings; a feed without a match makes the
\* cycle fail
C13_PersistedListSortedSet ==
  [][\A k \in 1..Len(inflight) : \A rs \in ExtractRuns :
       (CycleEnds /\ CycleReturn(k, rs))
       => IF FailedRun(inflight[k].cand, rs)
          THEN log' = LogError
          ELSE log' = LogCompleted /\ SortedSet(file'.ipAddresses)]_vars

\* C14: the entry a cycle records for the lists (old, new) has
\* added = new \ old and removed = old \ new as sets, so the two are
\* disjoint and new = (old \ removed) \cup added
C14_DiffIsSetDifference ==
  [][\A k \in 1..Len(inflight) : \A rs \in ExtractRuns :
       (CycleEnds /\ ~FailedRun(inflight[k].cand, rs) /\ CycleReturn(k, rs))
       => LET old == Range(inflight[k].currentData.ipAddresses)
              new == Range(file'.ipAddresses)
          IN old # new
             => LET e == file'.changelog[1]
                IN /\ Len(file'.changelog) = Len(file.changelog) + 1
                   /\ Range(e.added) = new \ old
                   /\ Range(e.removed) = old \ new
                   /\ Range(e.added) \cap Range(e.removed) = {}
                   /\ new = (old \ Range(e.removed)) \cup Range(e.added)]_vars

C14_Witness ==
  /\ log = LogCompleted
  /\ Len(file.changelog) = 1
  /\ file.changelog[1].added = <<A3, A3>>
  /\ file.changelog[1].removed = <<A1, A2>>

\* C15: a successful cycle persists the fetched list and a new lastUpdated;
\* it adds a changelog entry exactly when the set of addresses changed
C15_UnchangedSetNoEntry ==
  [][\A k \in 1..Len(inflight) : \A rs \in ExtractRuns :
       (CycleEnds /\ ~FailedRun(inflight[k].cand, rs) /\ CycleReturn(k, rs))
       => /\ file'.ipAddresses = ExtractIpv4List(ChainText(inflight[k].cand, rs))
          /\ ipv4txt' = file'.ipAddresses
          /\ file'.lastUpdated = clock
          /\ IF Range(file.ipAddresses) = Range(file'.ipAddresses)
             THEN file'.changelog = file.changelog
             ELSE Len(file'.changelog) = Len(file.changelog) + 1]_vars

C15_Witness ==
  /\ log = LogCompleted
  /\ file.lastUpdated = clock
  /\ file.ipAddresses = <<A2, A1>>
  /\ file.changelog = <<>>

\* C16: no cycle and no POST /api/update-ip-file replaces a non-empty
\* persisted address list by an empty one
C16_NonEmptyStaysNonEmpty ==
  [][(fileExists /\ file.ipAddresses # <<>>) => file'.ipAddresses # <<>>]_vars

C16_Witness ==
  /\ log = LogHandlerError
  /\ file.ipAddresses = <<A1, A3>>
  /\ lastUpdateTime > 0

\* C17: when a cycle completes at time C, successfully or not, the next
\* fire time is C + interval: nextUpdateTime and the pending timer
C17_NextFireFromCompletion ==
  [][CycleEnds
       => /\ nextUpdateTime' = clock + currentUpdateInterval' * MinuteMs
          /\ timers' = SetToBag({clock + currentUpdateInterval' * MinuteMs})]_vars

\* C18: a settings write whose interval is below 1 and that carries no
\* autoUpdateEnabled changes nothing (document, interval, nextUpdateTime,
\* timer), broadcasts nothing and ends without an error
C18_IntervalBelowOneIsNoOp ==
  [][PostUpdateInterval(0, "absent")
       => /\ file' = file
          /\ currentUpdateInterval' = currentUpdateInterval
          /\ nextUpdateTime' = nextUpdateTime
          /\ timers' = timers
          /\ updateTimer' = updateTimer
          /\ inflight' = inflight
          /\ received' = received
          /\ sseClients' = sseClients
          /\ log' = LogReceived]_vars

C18_Witness ==
  /\ log = LogReceived
  /\ clock = StartTime
  /\ file.updateInterval = 1
  /\ file.autoUpdateEnabled
  /\ currentUpdateInterval = 1
  /\ OneTimerPendingAt(StartTime + MinuteMs)
  /\ nextUpdateTime = StartTime + MinuteMs
  /\ file.nextUpdateTime = StartTime + MinuteMs
  /\ inflight = <<>>
  /\ lastUpdateTime = 0
  /\ sseClients = {"c1"}
  /\ chan["c1"] = "open"
  /\ Len(received["c1"]) = 1

\* the persisted document holds the values settingsChange event e carries
Holds(doc, e) ==
  /\ doc.nextUpdateTime = e.nextUpdateTime
  /\ "updateInterval" \in DOMAIN e => doc.updateInterval = e.updateInterval
  /\ "autoUpdateEnabled" \in DOMAIN e => doc.autoUpdateEnabled = e.autoUpdateEnabled

\* C19: the document a settings write leaves holds the values of every
\* settingsChange event the write broadcast, and a settings write that
\* fails to persist has broadcast nothing
C19_PersistedBeforeBroadcast ==
  [][\A i \in SseIntervals, a \in AutoInputs :
       /\ PostUpdateInterval(i, a)
            => \A c \in Clients : \A n \in DOMAIN NewEvents(c) :
                 NewEvents(c)[n].type = "settingsChange"
                   => Holds(file', NewEvents(c)[n])
       /\ (PostUpdateIntervalWriteFails(i, a) /\ log' = LogSettingsError)
            => received' = received]_vars

\* the events of every connection: connected first and only first, and
\* later events appended behind the ones already received; the two events
\* of one settings write arrive in the order the handler emits them
ConnectedFirstThenAppended ==
  /\ \A c \in Clients : \A n \in DOMAIN received'[c] :
       (received'[c][n].type = "connected") <=> (n = 1)
  /\ \A c \in Clients :
       \/ Connect(c)
       \/ /\ Len(received'[c]) >= Len(received[c])
          /\ SubSeq(received'[c], 1, Len(received[c])) = received[c]
  /\ \A a \in {"true", "false"} : \A c \in sseClients :
       (PostUpdateInterval(2, a) /\ chan[c] = "open")
       => /\ Len(NewEvents(c)) = 2
          /\ "updateInterval" \in DOMAIN NewEvents(c)[1]
          /\ "autoUpdateEnabled" \in DOMAIN NewEvents(c)[2]

\* C20 (as claimed): the first event of a subscriber is connected, sent once,
\* carrying the current interval, autoUpdateEnabled flag and nextUpdateTime;
\* every other event comes after it, in emission order
C20_ConnectedCarriesSettings ==
  [][/\ ConnectedFirstThenAppended
     /\ \A c \in Clients :
          Connect(c)
          => LET e == received'[c][1]
             IN /\ Len(received'[c]) = 1
                /\ e.updateInterval = currentUpdateInterval
                /\ e.nextUpdateTime = nextUpdateTime
                /\ "autoUpdateEnabled" \in DOMAIN e
                /\ e.autoUpdateEnabled = file.autoUpdateEnabled]_vars

\* C20 (amended): as above, but connected carries the current interval and
\* nextUpdateTime only, not the autoUpdateEnabled flag
C20_ConnectedCarriesIntervalAndTime ==
  [][/\ ConnectedFirstThenAppended
     /\ \A c \in Clients :
          Connect(c)
          => LET e == received'[c][1]
             IN /\ Len(received'[c]) = 1
                /\ DOMAIN e = {"type", "updateInterval", "nextUpdateTime"}
                /\ e.updateInterval = currentUpdateInterval
                /\ e.nextUpdateTime = nextUpdateTime]_vars

C20_Witness ==
  /\ Len(received["c1"]) = 3
  /\ received["c1"][1].type = "connected"
  /\ received["c1"][1].updateInterval = 1
  /\ received["c1"][2].type = "settingsChange"
  /\ received["c1"][3].type = "settingsChange"
  /\ "autoUpdateEnabled" \in DOMAIN received["c1"][3]

\* C21: at most one refresh timer is pending in every reachable state
C21_AtMostOneTimerPending ==
  /\ BagCardinality(timers) <= 1
  /\ timers # EmptyBag => OneTimerPending

C21_Witness ==
  /\ log = LogCompleted
  /\ currentUpdateInterval = 2
  /\ lastUpdateTime > StartTime
  /\ OneTimerPending

\* a trigger started a pipeline run less than 5 s ago: a run still in flight
\* that started then, or the start of the last run that persisted
RecentRunStart ==
  \/ \E k \in 1..Len(inflight) : clock - inflight[k].now < MIN_UPDATE_INTERVAL
  \/ clock - lastUpdateTime < MIN_UPDATE_INTERVAL

\* the step starts no fetch and leaves the address data as it was
NoRunStarted ==
  /\ inflight' = inflight
  /\ file'.ipAddresses = file.ipAddresses
  /\ file'.lastUpdated = file.lastUpdated
  /\ file'.changelog = file.changelog
  /\ ipv4txt' = ipv4txt
  /\ lastUpdateTxt' = lastUpdateTxt

\* C22: a trigger (timer fire, or a settings write with autoUpdateEnabled
\* true) that arrives less than 5 s after the trigger that started the
\* previous run starts no fetch and changes no address data
C22_TriggerWithinGuardRejected ==
  [][RecentRunStart
       => /\ \A t \in BagToSet(timers) : TimerFire(t) => NoRunStarted
          /\ \A i \in IntervalInputs :
               PostUpdateInterval(i, "true") => NoRunStarted]_vars

\* the step wrote exactly one update event to every open subscriber, carrying
\* the persisted lastUpdated and the fire time of the pending timer
OneUpdateEvent ==
  /\ OneTimerPending'
  /\ \A c \in sseClients :
       chan[c] = "open"
       => /\ Delivered(c, 1)
          /\ NewEvents(c)[1].type = "update"
          /\ NewEvents(c)[1].lastUpdated = file'.lastUpdated
          /\ NewEvents(c)[1].nextUpdateTime = updateTimer'

\* the forced refresh over run rs fetches a feed with addresses
RefreshPersists(rs) ==
  fetchStarlinkAddresses(rs).ok /\ ~ProcessThrows(fetchStarlinkAddresses(rs).text)

C23_CyclePersists == (CycleEnds /\ log' = LogCompleted) => OneUpdateEvent

C23_ForcedRefreshPersists ==
  \A rs \in BroadcastRuns :
    (RefreshPersists(rs) /\ UpdateIpFileForced(rs)) => OneUpdateEvent

\* C23: every operation that persists a refreshed address list (a cycle, or
\* a forced refresh through POST /api/update-ip-file) broadcasts exactly one
\* update event whose lastUpdated and nextUpdateTime are the persisted
\* lastUpdated and the time of the scheduler's next fire
C23_PersistBroadcastsUpdate ==
  [][C23_CyclePersists /\ C23_ForcedRefreshPersists]_vars

\* C24: POST /api/trigger-update answers when its run has ended: 200 if and
\* only if the run persisted the fetched list, 500 if the run failed, and
\* then the persisted document is unchanged
C24_TriggerAnswersOutcome ==
  [][\A k \in 1..Len(inflight) : \A rs \in TriggerRuns, f \in WriteFailures :
       (CycleEnds /\ TriggerReturn(k, rs, f))
       => LET persisted ==
                /\ ~FailedRun(inflight[k].cand, rs)
                /\ file'.ipAddresses = ExtractIpv4List(ChainText(inflight[k].cand, rs))
                /\ file'.lastUpdated = clock
          IN /\ (TriggerStatus(log') = 200) <=> persisted
             /\ (TriggerStatus(log') = 500) => file' = file]_vars

\* C25: from an empty store, a first cycle with a feed of 14.1.64.0/24 and
\* 14.1.65.0/24 followed by a cycle with a feed of 14.1.64.0/24 and
\* 14.1.66.0/24 leaves a changelog of length 1 whose entry has
\* added = [14.1.66.0/24] and removed = [14.1.65.0/24]
C25_SecondCycleEntry ==
  [][(file.ipAddresses = <<A1, A2>> /\ file'.ipAddresses = <<A1, A3>>)
       => /\ Len(file'.changelog) = 1
          /\ file'.changelog[1].added = <<A3>>
          /\ file'.changelog[1].removed = <<A2>>]_vars

\* C26: a settings write at time T that changes the autoUpdateEnabled flag
\* cancels the pending timer, sets nextUpdateTime to T + interval in memory
\* and in the document, carries that value in its settingsChange event and
\* leaves one timer pending for it
C26_FlagChangeReschedules ==
  [][\A a \in {"true", "false"} :
       (file.autoUpdateEnabled # (a = "true") /\ PostUpdateInterval(0, a))
       => LET next == clock + currentUpdateInterval * MinuteMs
          IN /\ nextUpdateTime' = next
             /\ file'.nextUpdateTime = next
             /\ file'.autoUpdateEnabled = (a = "true")
             /\ OneTimerPendingAt(next)'
             /\ \A c \in sseClients :
                  chan[c] = "open"
                  => /\ Delivered(c, 1)
                     /\ NewEvents(c)[1].type = "settingsChange"
                     /\ NewEvents(c)[1].nextUpdateTime = next]_vars

\* the step leaves the document, the interval, nextUpdateTime, the timer and
\* the cycles in flight as they were
SharedStateUnchanged ==
  /\ fileExists' = fileExists
  /\ file' = file
  /\ ipv4txt' = ipv4txt
  /\ currentUpdateInterval' = currentUpdateInterval
  /\ nextUpdateTime' = nextUpdateTime
  /\ lastUpdateTime' = lastUpdateTime
  /\ updateTimer' = updateTimer
  /\ timers' = timers
  /\ inflight' = inflight

\* C27: a subscriber's connect, close or error, and its eviction after a
\* failed write, change the subscriber set only: document, interval,
\* nextUpdateTime and pending timer stay as they were
C27_SubscribersOnlyMembership ==
  [][/\ \A c \in Clients :
          /\ Connect(c) => (SharedStateUnchanged /\ sseClients' = sseClients \cup {c})
          /\ ClientClose(c) => (SharedStateUnchanged /\ sseClients' = sseClients \ {c})
          /\ ChannelBreak(c) => (SharedStateUnchanged /\ sseClients' = sseClients)
     /\ (/\ ~file.autoUpdateEnabled
         /\ \E c \in sseClients : chan[c] = "broken"
         /\ PostUpdateInterval(0, "false"))
          => /\ SharedStateUnchanged
             /\ sseClients' = {c \in sseClients : chan[c] = "open"}]_vars

C27_Witness ==
  /\ log = LogReceived
  /\ ~file.autoUpdateEnabled
  /\ chan["c1"] = "broken"
  /\ "c1" \notin sseClients
  /\ chan["c2"] = "none"
  /\ Len(received["c2"]) = 2
  /\ OneTimerPendingAt(nextUpdateTime)

\* C28: while no handler or timer callback is executing, the nextUpdateTime
\* in memory (what GET /api/settings reports) is the one in the persisted
\* document and the time for which the pending timer is set
C28_NextUpdateTimeAgrees ==
  (running /\ inflight = <<>>)
  => /\ GetSettings.nextUpdateTime = file.nextUpdateTime
     /\ OneTimerPendingAt(GetSettings.nextUpdateTime)

\* C29: after startup a refresh timer is pending whenever no cycle is in
\* flight; no timer callback is turned away by the minimum-interval guard,
\* and every return of its updateIPAddresses leaves a timer scheduled
C29_TimerPendingAtRest ==
  /\ (running /\ inflight = <<>>) => OneTimerPending
  /\ \A t \in BagToSet(timers) :
       t <= clock => clock - lastUpdateTime >= MIN_UPDATE_INTERVAL

C29_Witness ==
  /\ log = LogDisabled
  /\ inflight = <<>>
  /\ lastUpdateTime > StartTime
  /\ OneTimerPendingAt(clock + currentUpdateInterval * MinuteMs)

\* C30: a persisted changelog entry leaves the changelog only by capacity
\* eviction: every write leaves the old entries, cut at the capacity, behind
\* the entries it adds
C30_EntriesLeaveOnlyByEviction ==
  [][\E n \in 0..ChangelogCap :
       /\ n <= Len(file'.changelog)
       /\ SubSeq(file'.changelog, n + 1, Len(file'.changelog))
            = Slice(file.changelog, ChangelogCap - n)]_vars

\* C31: when no operation is under way the two feeds agree: the lines of
\* public/ipv4.txt (served as /ipv4.txt) are the persisted ipAddresses
\* (served, joined by newlines, as /ipv4)
C31_FeedsAgree ==
  (running /\ inflight = <<>>) => ipv4txt = file.ipAddresses

\* a fetchData call has not ended, or ended less than ReleaseDelay ago
CallUnderWayOrJustEnded ==
  \/ hook.posts + hook.tail > 0
  \/ \E t \in BagToSet(hook.releaseTimers) : clock < t

\* C32: fetchData never has two POST /api/trigger-update in flight; a call
\* made while another has not ended, or ended less than a second ago, sends
\* nothing; and once a call has ended the timer that releases the
\* in-progress flag is pending
C32_OneTriggerInFlight ==
  [][/\ hook'.posts <= 1
     /\ (CallUnderWayOrJustEnded /\ FetchDataCall)
          => (hook'.posts = hook.posts /\ hook'.log = HookLogSkipping)
     /\ hook'.isFetchingRef
          => (hook'.posts + hook'.tail = 1 \/ hook'.releaseTimers # EmptyBag)]_vars

C32_Witness ==
  /\ hook.log = HookLogSkipping
  /\ hook.isFetchingRef
  /\ hook.posts + hook.tail = 0
  /\ BagCardinality(hook.releaseTimers) = 1
  /\ clock > StartTime

\* the state an applied event leaves
Applied(h, e) ==
  CASE e.type = "update" ->
         /\ h.lastUpdated = e.lastUpdated
         /\ h.nextUpdateTime = e.nextUpdateTime
    [] OTHER ->
         /\ h.updateInterval = e.updateInterval
         /\ h.nextUpdateTime = e.nextUpdateTime

\* an update event arriving now is outside the client's 5 s window
UpdateDue == clock - hook.lastUpdateTimeRef >= ClientMinUpdateInterval

EventsApplied ==
  \A i \in 1..Len(hook.sources) : \A e \in UpdateEvents \cup SettingsChangeEvents :
     (Message(i, e) /\ (e.type = "update" => UpdateDue)) => Applied(hook', e)

OneConnection == Cardinality(OpenSources(hook)) <= 1

\* C33: every update or settingsChange event that arrives on a connection
\* of the hook, the first one or one made after an error, is applied to
\* lastUpdated, nextUpdateTime and the interval, and at most one connection
\* is open at a time
C33_ReconnectKeepsEvents ==
  [][EventsApplied /\ OneConnection']_vars

\* events are applied on every connection that carries the handlers
C33_EventsAppliedWithHandlers ==
  [][\A i \in 1..Len(hook.sources) : \A e \in UpdateEvents \cup SettingsChangeEvents :
       (Message(i, e) /\ hook.sources[i].handlers /\ (e.type = "update" => UpdateDue))
          => Applied(hook', e)]_vars

C33_OneConnection == OneConnection

====
